---- MODULE Spec2Model ----
(***************************************************************************)
(* Rekhta Navees: the project document (AudioProject) and its TOML store.  *)
(*                                                                         *)
(* A string is a sequence of one-character strings, so that str.strip(),   *)
(* the title character check and slugify() are computed, not assumed.      *)
(* A TOML table is a function from its keys to their values; a key that is *)
(* absent from the table is absent from the function's domain.  The bytes  *)
(* of a parseable project file are represented by the tree tomlkit parses  *)
(* them to; the bytes of an unparseable one by an opaque token.            *)
(* The process runs with the project directory as working directory, as    *)
(* the test fixtures arrange (touchFiles: os.chdir(folder)), so an empty   *)
(* projectFolder and the project directory resolve to the same path.       *)
(* The audio and transcript files recordings name exist throughout.        *)
(***************************************************************************)
EXTENDS Integers, Sequences, FiniteSets, TLC

VARIABLES prj, fs, clock, outcome, saved,
          segments, pressedAt, currentSegmentIndex

(* the spectrum widget: its transcript, the time of the last mouse press
   (none yet: the empty sequence) and the index of the selected segment *)
widget == <<segments, pressedAt, currentSegmentIndex>>

vars == <<prj, fs, clock, outcome, saved, widget>>

(***************************************************************************)
(* Bounds                                                                  *)
(***************************************************************************)
MaxRecs == 2

MaxClock == 2

MaxSegs == 3

MaxTime == 3

MaxClips == 4

(***************************************************************************)
(* Tables                                                                  *)
(***************************************************************************)
EmptyTable == << >>

Has(t, k) == k \in DOMAIN t

Put(t, k, v) == [x \in (DOMAIN t) \cup {k} |-> IF x = k THEN v ELSE t[x]]

Del(t, k) == [x \in (DOMAIN t) \ {k} |-> t[x]]

(***************************************************************************)
(* Strings                                                                 *)
(***************************************************************************)
Whitespace == {" ", "\t", "\n"}

Letters == {"a", "b", "e", "m", "n", "x"}

Digits == {"0"}

RECURSIVE LStrip(_)
LStrip(s) == IF s # << >> /\ Head(s) \in Whitespace THEN LStrip(Tail(s)) ELSE s

RECURSIVE RStrip(_)
RStrip(s) ==
    IF s # << >> /\ s[Len(s)] \in Whitespace
    THEN RStrip(SubSeq(s, 1, Len(s) - 1))
    ELSE s

Strip(s) == RStrip(LStrip(s))

ProjectNameChars == Letters \cup Digits \cup {" ", "_", "-"}

isValidProjectName(name) ==
    LET n == Strip(name)
    IN  n # << >> /\ \A i \in 1..Len(n) : n[i] \in ProjectNameChars

MinimumValidChars == {"-", "_", ".", "(", ")"} \cup Letters \cup Digits

slugify(name) ==
    LET replaced == [i \in 1..Len(name) |-> IF name[i] = " " THEN "-" ELSE name[i]]
        Keep(c) == c \in MinimumValidChars
    IN  SelectSeq(replaced, Keep)

(***************************************************************************)
(* Paths of recordings: a path is a sequence of segments; constructing a   *)
(* Path drops the "." segments, str() of a Path writes its segments back.  *)
(***************************************************************************)
PathOf(s) == LET NotDot(x) == x # "." IN SelectSeq(s, NotDot)

StrOfPath(p) == p

Recording(a, t) == [audioFile |-> PathOf(a), transcriptFile |-> PathOf(t)]

(***************************************************************************)
(* AudioProject: construction and the field setters                        *)
(***************************************************************************)
(* a constructor that starts lastSavedOn at the epoch, "never saved" *)
AudioProjectNeverSaved(now) ==
    [title |-> << >>, projectFolder |-> << >>, originator |-> << >>,
     email |-> << >>, narrative |-> << >>, createdOn |-> now,
     lastSavedOn |-> 0, recordings |-> << >>, isModified |-> TRUE]

AudioProject(now) ==
    [title |-> << >>, projectFolder |-> << >>, originator |-> << >>,
     email |-> << >>, narrative |-> << >>, createdOn |-> now,
     lastSavedOn |-> now, recordings |-> << >>, isModified |-> TRUE]

ProjectDir == <<"d">>

ExistingDirs == {ProjectDir}

(* the setter without its isValidProjectName check *)
NameSetterUnchecked(p, x) ==
    LET t == Strip(x)
    IN  IF t # << >> /\ p.title # t
        THEN [p EXCEPT !.title = t, !.isModified = TRUE]
        ELSE p

NameSetter(p, x) ==
    LET t == Strip(x)
    IN  IF t # << >> /\ isValidProjectName(t) /\ p.title # t
        THEN [p EXCEPT !.title = t, !.isModified = TRUE]
        ELSE p

FolderSetter(p, x) ==
    LET f == Strip(x)
    IN  IF f = << >> \/ f \in ExistingDirs
        THEN [p EXCEPT !.projectFolder = f, !.isModified = TRUE]
        ELSE p

(* the setter without its comparison with the current value *)
AuthorNameSetterAlwaysFlag(p, x) ==
    LET a == Strip(x)
    IN  IF a # << >>
        THEN [p EXCEPT !.originator = a, !.isModified = TRUE]
        ELSE p

AuthorNameSetter(p, x) ==
    LET a == Strip(x)
    IN  IF a # << >> /\ a # p.originator
        THEN [p EXCEPT !.originator = a, !.isModified = TRUE]
        ELSE p

AuthorEmailSetter(p, x) ==
    LET a == Strip(x)
    IN  IF a # << >> /\ a # p.email
        THEN [p EXCEPT !.email = a, !.isModified = TRUE]
        ELSE p

DescriptionSetter(p, x) ==
    LET d == Strip(x)
    IN  IF d # p.narrative
        THEN [p EXCEPT !.narrative = d, !.isModified = TRUE]
        ELSE p

isDirty(p) == p.isModified

(* the author property, f'{self.originator} <{self.email}>' *)
author(p) == p.originator \o <<" ", "<">> \o p.email \o <<">">>

(***************************************************************************)
(* The recordings attribute is a plain list the callers change directly.   *)
(***************************************************************************)
RecordingsAppend(p, rec) == [p EXCEPT !.recordings = Append(@, rec)]

RecordingsPop(p) == [p EXCEPT !.recordings = SubSeq(@, 1, Len(@) - 1)]

RecordingsAssign(p, recs) == [p EXCEPT !.recordings = recs]

(***************************************************************************)
(* The project file                                                        *)
(***************************************************************************)
projectFilename(p) ==
    IF p.title # << >> THEN slugify(p.title) \o <<".toml">> ELSE << >>

projectFileExists(p, files) ==
    projectFilename(p) # << >> /\ projectFilename(p) \in DOMAIN files

BackupName(name) == name \o <<".bak">>

ApplicationVersion == <<"0", ".", "1">>

(* tomlkit.load: the tree of a parseable file, a TOMLKitError otherwise *)
TomlParses(content) == content.kind = "toml"

TomlLoad(content) == content.doc

(* tomlkit.dumps and the write: an array of tables with no entry writes no
   text at all, so the key is absent from the file that is written *)
TomlDumps(tdoc) ==
    [kind |-> "toml",
     doc |-> IF Has(tdoc, "recordings") /\ tdoc["recordings"] = << >>
             THEN Del(tdoc, "recordings")
             ELSE tdoc]

(***************************************************************************)
(* AudioProject.renderProjectToToml: a fresh document from the project     *)
(***************************************************************************)
RecordingTable(rec) ==
    [audioFile |-> StrOfPath(rec.audioFile),
     transcriptFile |-> StrOfPath(rec.transcriptFile)]

renderProjectToToml(p) ==
    IF p.originator = << >> \/ p.email = << >>
    THEN [err |-> "AssertionError", tdoc |-> EmptyTable]
    ELSE LET g1 == [authorName |-> p.originator, authorEmail |-> p.email]
             g2 == IF p.narrative # << >> THEN Put(g1, "description", p.narrative) ELSE g1
             general == Put(Put(g2, "createdOn", p.createdOn), "lastSavedOn", p.lastSavedOn)
             recordings == [i \in 1..Len(p.recordings) |-> RecordingTable(p.recordings[i])]
         IN  [err |-> "",
              tdoc |-> [RekhtaNaveesVersion |-> ApplicationVersion,
                        general |-> general,
                        recordings |-> recordings]]

(***************************************************************************)
(* AudioProject.updateProjectToToml: patch the tree of the existing file   *)
(***************************************************************************)
UpdateEntry(entry, rec) ==
    Put(Put(entry, "audioFile", StrOfPath(rec.audioFile)),
        "transcriptFile", StrOfPath(rec.transcriptFile))

(* the patch without its `del recordings[R:]` *)
UpdateRecordingsNoTruncate(recordings, mine) ==
    LET R == Len(mine)
        r == Len(recordings)
        n == IF R > r THEN r ELSE R
        updated == [i \in 1..r |-> IF i <= n THEN UpdateEntry(recordings[i], mine[i])
                                             ELSE recordings[i]]
    IN  IF R > r
        THEN updated \o [i \in 1..(R - r) |-> RecordingTable(mine[r + i])]
        ELSE updated

(* the patch truncating one entry late, `del recordings[R + 1:]` *)
UpdateRecordingsOffByOne(recordings, mine) ==
    LET R == Len(mine)
        r == Len(recordings)
        n == IF R > r THEN r ELSE R
        updated == [i \in 1..r |-> IF i <= n THEN UpdateEntry(recordings[i], mine[i])
                                             ELSE recordings[i]]
    IN  IF R > r
        THEN updated \o [i \in 1..(R - r) |-> RecordingTable(mine[r + i])]
        ELSE SubSeq(updated, 1, IF R + 1 < r THEN R + 1 ELSE r)

(* an update that appends the project's recordings to those of the file *)
UpdateRecordingsAppending(recordings, mine) ==
    recordings \o [i \in 1..Len(mine) |-> RecordingTable(mine[i])]

UpdateRecordings(recordings, mine) ==
    LET R == Len(mine)
        r == Len(recordings)
        hasMore == R > r
        n == IF hasMore THEN r ELSE R
        updated == [i \in 1..r |-> IF i <= n THEN UpdateEntry(recordings[i], mine[i])
                                             ELSE recordings[i]]
    IN  IF hasMore
        THEN updated \o [i \in 1..(R - r) |-> RecordingTable(mine[r + i])]
        ELSE SubSeq(updated, 1, R)

(* an update that renders the project afresh instead of patching the tree *)
updateProjectToTomlRendering(p, tdoc) == renderProjectToToml(p)

updateProjectToToml(p, tdoc) ==
    LET t1 == Put(tdoc, "RekhtaNaveesVersion", ApplicationVersion)
    IN  IF ~Has(t1, "general")
        THEN [err |-> "NameError", tdoc |-> t1]
        ELSE IF p.originator = << >> \/ p.email = << >>
        THEN [err |-> "AssertionError", tdoc |-> t1]
        ELSE LET g0 == t1["general"]
                 g1 == Put(Put(g0, "authorName", p.originator), "authorEmail", p.email)
                 g2 == IF p.narrative # << >> THEN Put(g1, "description", p.narrative)
                       ELSE IF Has(g1, "description") THEN Del(g1, "description")
                       ELSE g1
                 general == Put(Put(g2, "createdOn", p.createdOn),
                                "lastSavedOn", p.lastSavedOn)
                 t2 == Put(t1, "general", general)
                 recordings == IF Has(t2, "recordings") THEN t2["recordings"] ELSE << >>
             IN  [err |-> "",
                  tdoc |-> Put(t2, "recordings", UpdateRecordings(recordings, p.recordings))]

(***************************************************************************)
(* AudioProject.saveProject.  The statement that follows the three paths,  *)
(*     tdoc['general']['lastSavedOn']: datetime.now(tz=timezone.utc)       *)
(* is an annotation, not an assignment: it stores nothing, so `now` does   *)
(* not reach the document or the file.  The write opens the project path;  *)
(* with an empty title that path is the directory itself and open() fails. *)
(***************************************************************************)
WriteProject(p, files, tdoc) ==
    IF projectFilename(p) = << >>
    THEN [result |-> "IsADirectoryError", files |-> files]
    ELSE [result |-> "ok",
          files |-> Put(files, projectFilename(p), TomlDumps(tdoc))]

(* the handler without its unlink(): the rename onto an existing backup
   fails where the platform does not replace the target *)
BackupAndRenderKeepsOld(p, files) ==
    LET name == projectFilename(p)
        moved == Put(Del(files, name), BackupName(name), files[name])
        r == renderProjectToToml(p)
    IN  IF BackupName(name) \in DOMAIN files
        THEN [result |-> "FileExistsError", files |-> files]
        ELSE IF r.err # "" THEN [result |-> r.err, files |-> moved]
        ELSE WriteProject(p, moved, r.tdoc)

(* except TOMLKitError: remove an earlier backup, rename the file that does
   not parse to <name>.bak, render afresh *)
BackupAndRender(p, files) ==
    LET name == projectFilename(p)
        moved == Put(Del(Del(files, BackupName(name)), name),
                     BackupName(name), files[name])
        r == renderProjectToToml(p)
    IN  IF r.err # "" THEN [result |-> r.err, files |-> moved]
        ELSE WriteProject(p, moved, r.tdoc)

saveProject(p, files, now) ==
    LET name == projectFilename(p)
    IN  IF ~projectFileExists(p, files)
        THEN LET r == renderProjectToToml(p)
             IN  IF r.err # "" THEN [result |-> r.err, files |-> files]
                 ELSE WriteProject(p, files, r.tdoc)
        ELSE IF TomlParses(files[name])
        THEN LET u == updateProjectToToml(p, TomlLoad(files[name]))
             IN  IF u.err # "" THEN [result |-> u.err, files |-> files]
                 ELSE WriteProject(p, files, u.tdoc)
        ELSE BackupAndRender(p, files)

(***************************************************************************)
(* AudioProject.renderTomlToProject and loadProject                        *)
(***************************************************************************)
RECURSIVE AppendRecordings(_, _)
AppendRecordings(acc, entries) ==
    IF entries = << >> THEN [err |-> "", recordings |-> acc]
    ELSE LET e == Head(entries)
         IN  IF ~Has(e, "audioFile") \/ ~Has(e, "transcriptFile")
             THEN [err |-> "AssertionError", recordings |-> acc]
             ELSE AppendRecordings(
                      Append(acc, Recording(e["audioFile"], e["transcriptFile"])),
                      Tail(entries))

(* the gate without its comparison: any version tag passes *)
VersionGatePresenceOnly(tdoc) == Has(tdoc, "RekhtaNaveesVersion")

VersionGate(tdoc) ==
    /\ Has(tdoc, "RekhtaNaveesVersion")
    /\ tdoc["RekhtaNaveesVersion"] = ApplicationVersion

renderTomlToProject(p, tdoc) ==
    IF ~VersionGate(tdoc) THEN [err |-> "AssertionError", prj |-> p]
    ELSE IF ~Has(tdoc, "general") THEN [err |-> "AssertionError", prj |-> p]
    ELSE LET general == tdoc["general"]
         IN  IF ~Has(general, "authorName") THEN [err |-> "AssertionError", prj |-> p]
             ELSE LET p1 == [p EXCEPT !.originator = general["authorName"]]
                  IN  IF ~Has(general, "authorEmail")
                      THEN [err |-> "AssertionError", prj |-> p1]
                      ELSE LET p2 == [p1 EXCEPT !.email = general["authorEmail"]]
                               p3 == IF Has(general, "description")
                                     THEN [p2 EXCEPT !.narrative = general["description"]]
                                     ELSE p2
                               p4 == IF Has(general, "createdOn")
                                     THEN [p3 EXCEPT !.createdOn = general["createdOn"]]
                                     ELSE p3
                               p5 == IF Has(general, "lastSavedOn")
                                     THEN [p4 EXCEPT !.lastSavedOn = general["lastSavedOn"]]
                                     ELSE p4
                               rs == IF Has(tdoc, "recordings")
                                     THEN AppendRecordings(p5.recordings, tdoc["recordings"])
                                     ELSE [err |-> "", recordings |-> p5.recordings]
                           IN  [err |-> rs.err,
                                prj |-> [p5 EXCEPT !.recordings = rs.recordings]]

(* a load that ends by resetting the flag *)
loadProjectResettingFlag(p, files) ==
    IF ~projectFileExists(p, files)
    THEN [result |-> "AudioProjectException", prj |-> p]
    ELSE IF p.projectFolder = << >>
    THEN [result |-> "FileNotFoundError", prj |-> p]
    ELSE IF ~TomlParses(files[projectFilename(p)])
    THEN [result |-> "AudioProjectException", prj |-> p]
    ELSE LET r == renderTomlToProject(p, TomlLoad(files[projectFilename(p)]))
         IN  IF r.err = ""
             THEN [result |-> "ok", prj |-> [r.prj EXCEPT !.isModified = FALSE]]
             ELSE [result |-> "AudioProjectException", prj |-> r.prj]

(* a load without its projectFileExists() check: open() raises on the
   missing file *)
loadProjectUnchecked(p, files) ==
    IF p.projectFolder = << >> \/ ~projectFileExists(p, files)
    THEN [result |-> "FileNotFoundError", prj |-> p]
    ELSE IF ~TomlParses(files[projectFilename(p)])
    THEN [result |-> "AudioProjectException", prj |-> p]
    ELSE LET r == renderTomlToProject(p, TomlLoad(files[projectFilename(p)]))
         IN  [result |-> IF r.err = "" THEN "ok" ELSE "AudioProjectException",
              prj |-> r.prj]

loadProject(p, files) ==
    IF ~projectFileExists(p, files)
    THEN [result |-> "AudioProjectException", prj |-> p]
    ELSE IF p.projectFolder = << >>
    THEN [result |-> "FileNotFoundError", prj |-> p]
    ELSE IF ~TomlParses(files[projectFilename(p)])
    THEN [result |-> "AudioProjectException", prj |-> p]
    ELSE LET r == renderTomlToProject(p, TomlLoad(files[projectFilename(p)]))
         IN  [result |-> IF r.err = "" THEN "ok" ELSE "AudioProjectException",
              prj |-> r.prj]

(***************************************************************************)
(* The transcript: Segment.__contains__ and findSegment, the binary search *)
(* the spectrum widget runs on a mouse press.  Times are whole units.      *)
(***************************************************************************)
NotFound == -1

Segment(start, end) == [start |-> start, end |-> end]

Contains(segment, t) == segment.start <= t /\ t <= segment.end

(* the while loop, on 0-based indices *)
RECURSIVE BinarySearch(_, _, _, _)
BinarySearch(segs, targetTime, low, high) ==
    IF low > high THEN NotFound
    ELSE LET mid == (low + high) \div 2
         IN  IF Contains(segs[mid + 1], targetTime) THEN mid
             ELSE IF segs[mid + 1].end < targetTime
                  THEN BinarySearch(segs, targetTime, mid + 1, high)
                  ELSE BinarySearch(segs, targetTime, low, mid - 1)

findSegment(segs, targetTime) == BinarySearch(segs, targetTime, 0, Len(segs) - 1)

(* the currentSegment setter of the widget *)
CurrentSegmentSetter(segs, index) ==
    IF segs # << >> /\ 0 <= index /\ index < Len(segs) THEN index ELSE NotFound

(***************************************************************************)
(* NaveesProject, the pydantic project model of the same module, with the  *)
(* module-level loadProject(filename) and NaveesProject.save.  In the      *)
(* application tomlkit has the path encoder settings.py registers, so a    *)
(* clip's paths are written as strings.                                    *)
(***************************************************************************)
MinLength == 3

(* EmailStr, in outline: a local part, '@', and a domain holding a dot *)
IsEmail(s) ==
    \E i \in 2..Len(s) :
        /\ s[i] = "@"
        /\ \A j \in 1..Len(s) : s[j] = "@" => j = i
        /\ \E j \in (i + 2)..(Len(s) - 1) : s[j] = "."

(* ProjectInfo.model_validate *)
ProjectInfo(general) ==
    IF \/ ~Has(general, "title") \/ ~Has(general, "authorName")
       \/ ~Has(general, "authorEmail")
    THEN [err |-> "ValidationError", info |-> EmptyTable]
    ELSE LET title == Strip(general["title"])
             authorName == Strip(general["authorName"])
         IN  IF \/ Len(title) < MinLength \/ ~isValidProjectName(title)
                \/ Len(authorName) < MinLength \/ ~IsEmail(general["authorEmail"])
             THEN [err |-> "ValidationError", info |-> EmptyTable]
             ELSE [err |-> "",
                   info |-> [title |-> title, authorName |-> authorName,
                             authorEmail |-> general["authorEmail"],
                             description |-> IF Has(general, "description")
                                             THEN Strip(general["description"])
                                             ELSE << >>,
                             createdOn |-> IF Has(general, "createdOn")
                                           THEN general["createdOn"] ELSE 0]]

NaveesProject(projectFile, info, clips) ==
    [projectFile |-> projectFile, info |-> info, clips |-> clips, isModified |-> FALSE]

(* Recording.model_validate of every entry: the two paths are required *)
RECURSIVE ValidateClips(_)
ValidateClips(entries) ==
    IF entries = << >> THEN [err |-> "", clips |-> << >>]
    ELSE LET e == Head(entries)
             rest == ValidateClips(Tail(entries))
         IN  IF ~Has(e, "audioFile") \/ ~Has(e, "transcriptFile")
             THEN [err |-> "ValidationError", clips |-> << >>]
             ELSE [err |-> rest.err,
                   clips |-> <<Recording(e["audioFile"], e["transcriptFile"])>> \o rest.clips]

(* loadProject(filename) *)
loadNaveesProject(files, filename) ==
    IF filename \notin DOMAIN files \/ ~TomlParses(files[filename])
    THEN [result |-> "AudioProjectException"]
    ELSE LET tdoc == TomlLoad(files[filename])
         IN  IF ~Has(tdoc, "general") THEN [result |-> "NonExistentKey"]
             ELSE LET v == ProjectInfo(tdoc["general"])
                      c == IF Has(tdoc, "recordings") THEN ValidateClips(tdoc["recordings"])
                           ELSE [err |-> "", clips |-> << >>]
                  IN  IF v.err # "" \/ c.err # ""
                      THEN [result |-> "AudioProjectException"]
                      ELSE [result |-> "ok",
                            project |-> NaveesProject(filename, v.info, c.clips)]

(* createProjectToml *)
createProjectToml == [general |-> EmptyTable, recordings |-> << >>]

(* NaveesProject.save: the general table replaced, every clip appended to
   the recordings the file already holds *)
NaveesProjectSave(project, files) ==
    LET file == files[project.projectFile]
        tdoc == IF TomlParses(file) THEN TomlLoad(file) ELSE createProjectToml
        t1 == Put(tdoc, "general", project.info)
        recordings == IF Has(t1, "recordings") THEN t1["recordings"] ELSE << >>
        appended == recordings \o
                    [i \in 1..Len(project.clips) |-> RecordingTable(project.clips[i])]
    IN  Put(files, project.projectFile, TomlDumps(Put(t1, "recordings", appended)))

(***************************************************************************)
(* The transcript store: saveTranscript and loadTranscript.  A segment     *)
(* here carries its id, times, text and its optional word list: None is    *)
(* the empty sequence, a list ws is <<ws>>.  The other scalar fields of a  *)
(* Segment travel as text does.  The JSON file is represented by the tree  *)
(* json.dumps is given, after the model_dump of every segment.             *)
(***************************************************************************)
None == << >>

Some(x) == <<x>>

model_dump(segment) ==
    [k \in DOMAIN segment |-> segment[k]]

model_validate(entry) ==
    [id |-> entry["id"], start |-> entry["start"], end |-> entry["end"],
     text |-> entry["text"], words |-> entry["words"]]

RECURSIVE JoinText(_)
JoinText(segs) ==
    IF segs = << >> THEN << >> ELSE Head(segs).text \o JoinText(Tail(segs))

(* for s in segments: s.words = None; then the dump of what is left *)
saveTranscript(segs) ==
    LET cleared == [i \in 1..Len(segs) |-> [segs[i] EXCEPT !.words = None]]
    IN  [segments |-> cleared,
         content |-> [kind |-> "json",
                      doc |-> [segments |-> [i \in 1..Len(cleared) |-> model_dump(cleared[i])],
                               text |-> JoinText(cleared)]]]

(* the file must exist; whatever goes wrong in reading it is logged and the
   empty list returned *)
loadTranscript(files, transcriptFile) ==
    IF transcriptFile \notin DOMAIN files
    THEN [result |-> "AssertionError", segments |-> << >>]
    ELSE IF files[transcriptFile].kind # "json"
    THEN [result |-> "ok", segments |-> << >>]
    ELSE LET j == files[transcriptFile].doc
         IN  [result |-> "ok",
              segments |-> [i \in 1..Len(j["segments"]) |-> model_validate(j["segments"][i])]]

(***************************************************************************)
(* Inputs and the files the program may find                               *)
(***************************************************************************)
NameInputs == {<<" ">>, <<" ", "a", " ">>, <<"a", "@">>}

(* titles the name setter is probed with: blank, padded, valid and invalid *)
NameProbes ==
    NameInputs \cup {<< >>, <<"\t">>, <<"\n", "a", "b">>, <<"b", "_", "-", "0">>,
                     <<" ", "a", " ", "b", " ">>, <<"(", "a", ")">>, <<"a", ".", "b">>}

FolderInputs == {<< >>, <<" ", "d">>, <<"z">>}

AuthorNameInputs == {<<" ">>, <<" ", "n">>, <<"m">>}

AuthorEmailInputs == {<< >>, <<"e", " ">>}

DescriptionInputs == {<<" ">>, <<"x", " ">>}

(* the recordings of the tests: Recording(audioFile=f'ac{n}', transcriptFile=f't{n}') *)
AudioNames == <<"ac0", "ac1", "ac2", "ac3">>

TranscriptNames == <<"t0", "t1", "t2", "t3">>

Rec(n) == Recording(<<AudioNames[n]>>, <<TranscriptNames[n]>>)

RecsUpTo(n) == [i \in 1..n |-> Rec(i)]

ProjectFile == <<"a", ".toml">>

CorruptBytes == [kind |-> "corrupt", bytes |-> "garbage"]

OldBackup == [kind |-> "corrupt", bytes |-> "older garbage"]

(* the saved project file of the tests (PROJECT_TOML with lastSavedOn), with
   one recording, and with a table the user added to the file by hand *)
ReferenceToml ==
    [RekhtaNaveesVersion |-> ApplicationVersion,
     general |-> [title |-> <<"a">>, authorName |-> <<"m">>, authorEmail |-> <<"e">>,
                  description |-> <<"x">>, createdOn |-> 0, lastSavedOn |-> 0],
     recordings |-> << [audioFile |-> <<".", "recording001">>,
                        transcriptFile |-> <<"recording001.txt">>,
                        videoFile |-> <<"recording001.mp4">>] >>,
     custom |-> [k |-> <<"v">>]]

InitialTomls ==
    {ReferenceToml,
     Put(ReferenceToml, "RekhtaNaveesVersion", <<"0", ".", "2">>),
     Del(ReferenceToml, "RekhtaNaveesVersion"),
     Del(ReferenceToml, "general")}
    \cup {Put(ReferenceToml, "general", Del(ReferenceToml["general"], k)) :
              k \in {"title", "authorName", "authorEmail"}}

InitialFiles ==
    {EmptyTable,
     Put(EmptyTable, ProjectFile, CorruptBytes),
     Put(Put(EmptyTable, ProjectFile, CorruptBytes), BackupName(ProjectFile), OldBackup)}
    \cup {Put(EmptyTable, ProjectFile, [kind |-> "toml", doc |-> t]) : t \in InitialTomls}

(***************************************************************************)
(* The state machine                                                       *)
(***************************************************************************)
Done(op, result) == [op |-> op, result |-> result]

(* what the last successful save was given, when it ran and the lastSavedOn
   it wrote: kept to compare a later load or save against *)
Snapshot(p, now, files) ==
    [title |-> p.title, originator |-> p.originator, email |-> p.email,
     narrative |-> p.narrative, createdOn |-> p.createdOn,
     recordings |-> p.recordings, at |-> now,
     written |-> TomlLoad(files[projectFilename(p)])["general"]["lastSavedOn"]]

Init ==
    /\ clock = 1
    /\ prj = AudioProject(1)
    /\ fs \in InitialFiles
    /\ outcome = Done("new", "ok")
    /\ saved = << >>
    /\ segments = << >>
    /\ pressedAt = << >>
    /\ currentSegmentIndex = NotFound

Construct ==
    /\ prj' = AudioProject(clock)
    /\ outcome' = Done("new", "ok")
    /\ UNCHANGED <<fs, clock, saved, widget>>

SetName ==
    \E x \in NameInputs :
        /\ prj' = NameSetter(prj, x)
        /\ outcome' = Done("edit", "ok")
        /\ UNCHANGED <<fs, clock, saved, widget>>

SetFolder ==
    \E x \in FolderInputs :
        /\ prj' = FolderSetter(prj, x)
        /\ outcome' = Done("edit", "ok")
        /\ UNCHANGED <<fs, clock, saved, widget>>

SetAuthorName ==
    \E x \in AuthorNameInputs :
        /\ prj' = AuthorNameSetter(prj, x)
        /\ outcome' = Done("edit", "ok")
        /\ UNCHANGED <<fs, clock, saved, widget>>

SetAuthorEmail ==
    \E x \in AuthorEmailInputs :
        /\ prj' = AuthorEmailSetter(prj, x)
        /\ outcome' = Done("edit", "ok")
        /\ UNCHANGED <<fs, clock, saved, widget>>

SetDescription ==
    \E x \in DescriptionInputs :
        /\ prj' = DescriptionSetter(prj, x)
        /\ outcome' = Done("edit", "ok")
        /\ UNCHANGED <<fs, clock, saved, widget>>

AppendRecording ==
    /\ Len(prj.recordings) < MaxRecs
    /\ prj' = RecordingsAppend(prj, Rec(Len(prj.recordings) + 1))
    /\ outcome' = Done("edit", "ok")
    /\ UNCHANGED <<fs, clock, saved, widget>>

RemoveRecording ==
    /\ prj.recordings # << >>
    /\ prj' = RecordingsPop(prj)
    /\ outcome' = Done("edit", "ok")
    /\ UNCHANGED <<fs, clock, saved, widget>>

AssignRecordings ==
    \E n \in 0..MaxRecs :
        /\ prj' = RecordingsAssign(prj, RecsUpTo(n))
        /\ outcome' = Done("edit", "ok")
        /\ UNCHANGED <<fs, clock, saved, widget>>

Load ==
    LET r == loadProject(prj, fs)
    IN  /\ Len(r.prj.recordings) <= MaxRecs
        /\ prj' = r.prj
        /\ outcome' = Done("load", r.result)
        /\ UNCHANGED <<fs, clock, saved, widget>>

Save ==
    LET r == saveProject(prj, fs, clock)
    IN  /\ fs' = r.files
        /\ outcome' = Done("save", r.result)
        /\ saved' = IF r.result = "ok" THEN <<Snapshot(prj, clock, r.files)>> ELSE saved
        /\ UNCHANGED <<prj, clock, widget>>

Tick ==
    /\ clock < MaxClock
    /\ clock' = clock + 1
    /\ UNCHANGED <<prj, fs, outcome, saved, widget>>

Next ==
    \/ Construct
    \/ SetName
    \/ SetFolder
    \/ SetAuthorName
    \/ SetAuthorEmail
    \/ SetDescription
    \/ AppendRecording
    \/ RemoveRecording
    \/ AssignRecordings
    \/ Load
    \/ Save

(* the store with the clock standing still *)
Spec == Init /\ [][Next]_vars

NextClock ==
    \/ Next
    \/ Tick

(* the store with time passing between the operations *)
SpecClock == Init /\ [][NextClock]_vars

(***************************************************************************)
(* The write of saveProject failing.  open(mode='wb+') has truncated the   *)
(* project file by the time tomlkit.dumps or write() runs, so a failure    *)
(* there leaves the file empty or with the bytes written so far.  An empty *)
(* file is a TOML document with no key.  The error (an OSError) is not     *)
(* caught by saveProject.                                                  *)
(***************************************************************************)
EmptyFile == [kind |-> "toml", doc |-> EmptyTable]

PartialFile == [kind |-> "corrupt", bytes |-> "partial"]

FailedWrites == {EmptyFile, PartialFile}

SaveWriteFails ==
    LET r == saveProject(prj, fs, clock)
    IN  /\ r.result = "ok"
        /\ \E left \in FailedWrites :
               fs' = Put(r.files, projectFilename(prj), left)
        /\ outcome' = Done("save", "OSError")
        /\ UNCHANGED <<prj, clock, saved, widget>>

NextIO ==
    \/ Next
    \/ SaveWriteFails

SpecIO == Init /\ [][NextIO]_vars

(***************************************************************************)
(* The spectrum widget with a transcript loaded: mouse presses look up the *)
(* segment under the pointer.  The transcript is any list of segments      *)
(* ordered by non-decreasing start time.                                   *)
(***************************************************************************)
Times == 0..MaxTime

Segments == {seg \in [start : Times, end : Times] : seg.start <= seg.end}

OrderedByStart(segs) ==
    \A i \in 1..(Len(segs) - 1) : segs[i].start <= segs[i + 1].start

Transcripts ==
    {segs \in UNION {[1..n -> Segments] : n \in 0..MaxSegs} : OrderedByStart(segs)}

InitWidget ==
    /\ clock = 1
    /\ prj = AudioProject(1)
    /\ fs = EmptyTable
    /\ outcome = Done("new", "ok")
    /\ saved = << >>
    /\ segments \in Transcripts
    /\ pressedAt = << >>
    /\ currentSegmentIndex = NotFound

MousePress ==
    \E t \in Times :
        /\ pressedAt' = <<t>>
        /\ currentSegmentIndex' = CurrentSegmentSetter(segments, findSegment(segments, t))
        /\ UNCHANGED <<prj, fs, clock, outcome, saved, segments>>

NextWidget == MousePress

SpecWidget == InitWidget /\ [][NextWidget]_vars

(***************************************************************************)
(* The transcript of a recording, saved to and loaded from its JSON file.  *)
(***************************************************************************)
TranscriptPath == <<TranscriptNames[1]>>

Words == {None, Some(<<[word |-> <<"w">>, start |-> 0, end |-> 1]>>)}

SegmentRecords ==
    [id : 0..1, start : {0}, end : {1}, text : {<<"a">>, <<"b">>}, words : Words]

TranscriptLists == UNION {[1..n -> SegmentRecords] : n \in 0..MaxSegs}

InitTranscript ==
    /\ clock = 1
    /\ prj = AudioProject(1)
    /\ fs \in {EmptyTable, Put(EmptyTable, TranscriptPath, CorruptBytes)}
    /\ outcome = Done("new", "ok")
    /\ saved = << >>
    /\ segments \in TranscriptLists
    /\ pressedAt = << >>
    /\ currentSegmentIndex = NotFound

SaveTranscript ==
    LET r == saveTranscript(segments)
    IN  /\ segments' = r.segments
        /\ fs' = Put(fs, TranscriptPath, r.content)
        /\ saved' = <<segments>>
        /\ outcome' = Done("saveTranscript", "ok")
        /\ UNCHANGED <<prj, clock, pressedAt, currentSegmentIndex>>

LoadTranscript ==
    LET r == loadTranscript(fs, TranscriptPath)
    IN  /\ segments' = IF r.result = "ok" THEN r.segments ELSE segments
        /\ outcome' = Done("loadTranscript", r.result)
        /\ UNCHANGED <<prj, fs, clock, saved, pressedAt, currentSegmentIndex>>

(***************************************************************************)
(* A NaveesProject over its project file: built with no clips or loaded    *)
(* from the file, its clips changed, saved.                                *)
(***************************************************************************)
NaveesGeneral ==
    [title |-> <<"a", "b", "e">>, authorName |-> <<"m", "n", "x">>,
     authorEmail |-> <<"e", "@", "x", ".", "b">>, createdOn |-> 0]

NaveesToml(r) ==
    [RekhtaNaveesVersion |-> ApplicationVersion, general |-> NaveesGeneral,
     recordings |-> [i \in 1..r |-> RecordingTable(Rec(i))]]

NaveesFiles ==
    {Put(EmptyTable, ProjectFile, TomlDumps(NaveesToml(r))) : r \in 0..MaxRecs}
    \cup {Put(EmptyTable, ProjectFile, CorruptBytes),
          Put(EmptyTable, ProjectFile,
              TomlDumps(Put(NaveesToml(1), "general", Put(NaveesGeneral, "title", <<"a">>))))}

InitNavees ==
    /\ clock = 1
    /\ fs \in NaveesFiles
    /\ prj = NaveesProject(ProjectFile, ProjectInfo(NaveesGeneral).info, << >>)
    /\ outcome = Done("new", "ok")
    /\ saved = << >>
    /\ segments = << >>
    /\ pressedAt = << >>
    /\ currentSegmentIndex = NotFound

NaveesLoad ==
    LET r == loadNaveesProject(fs, ProjectFile)
    IN  /\ prj' = IF r.result = "ok" THEN r.project ELSE prj
        /\ outcome' = Done("naveesLoad", r.result)
        /\ UNCHANGED <<fs, clock, saved, widget>>

NaveesSave ==
    /\ Len(prj.clips)
          + (IF TomlParses(fs[ProjectFile]) /\ Has(TomlLoad(fs[ProjectFile]), "recordings")
             THEN Len(TomlLoad(fs[ProjectFile])["recordings"]) ELSE 0) <= MaxClips
    /\ fs' = NaveesProjectSave(prj, fs)
    /\ outcome' = Done("naveesSave", "ok")
    /\ UNCHANGED <<prj, clock, saved, widget>>

NaveesAppendClip ==
    /\ Len(prj.clips) < MaxRecs
    /\ prj' = [prj EXCEPT !.clips = Append(@, Rec(Len(@) + 1))]
    /\ outcome' = Done("naveesEdit", "ok")
    /\ UNCHANGED <<fs, clock, saved, widget>>

NaveesRemoveClip ==
    /\ prj.clips # << >>
    /\ prj' = [prj EXCEPT !.clips = SubSeq(@, 1, Len(@) - 1)]
    /\ outcome' = Done("naveesEdit", "ok")
    /\ UNCHANGED <<fs, clock, saved, widget>>

NextNavees ==
    \/ NaveesLoad
    \/ NaveesSave
    \/ NaveesAppendClip
    \/ NaveesRemoveClip

SpecNavees == InitNavees /\ [][NextNavees]_vars

NextTranscript ==
    \/ SaveTranscript
    \/ LoadTranscript

SpecTranscript == InitTranscript /\ [][NextTranscript]_vars

(***************************************************************************)
(* The application settings: settings.py, and the recent files list of the *)
(* main window.  Paths are atoms here; prj is the RSettings singleton:     *)
(* None until the settings are loaded, then a record with its Main.        *)
(***************************************************************************)
MaxRecent == 3

RecentMaxLimit == 25

PreferencesFile == "preferences.toml"

LogLevels == {"CRITICAL", "WARNING", "INFO", "DEBUG"}

Themes == {"Light", "Dark", "HighContrast"}

(* MainConfig.model_fields, in the order of declaration *)
MainFields ==
    <<"LogLevel", "Theme", "ProjectBaseDirectory", "RecentMaxCount", "RecentFiles",
      "AutoSaveInterval">>

MainDefaults ==
    [LogLevel |-> "DEBUG", Theme |-> "Light", ProjectBaseDirectory |-> "",
     RecentMaxCount |-> 10, RecentFiles |-> << >>, AutoSaveInterval |-> 5]

is_file(files, p) == p \in DOMAIN files

(* the empty path is the current directory *)
is_dir(files, d) == d = "" \/ d \in ExistingDirs

(* the validation of one value other than the list of recent files *)
FieldValid(files, field, v) ==
    CASE field = "LogLevel" -> v \in LogLevels
      [] field = "Theme" -> v \in Themes
      [] field = "ProjectBaseDirectory" -> is_dir(files, v)
      [] field = "RecentMaxCount" -> v > 0 /\ v <= RecentMaxLimit
      [] field = "AutoSaveInterval" -> v > 0
      [] OTHER -> TRUE

(* the errors of one field as pydantic lists them: loc is the field, and
   for an entry of RecentFiles the field and the entry's index from 0 *)
FieldErrors(files, main, field) ==
    IF ~Has(main, field) THEN << >>
    ELSE IF field = "RecentFiles"
         THEN LET l == main[field]
                  bad == SelectSeq([i \in 1..Len(l) |-> i],
                                   LAMBDA i : ~is_file(files, l[i]))
              IN  [k \in 1..Len(bad) |->
                      [loc |-> <<field, bad[k] - 1>>, type |-> "path_not_file"]]
         ELSE IF FieldValid(files, field, main[field]) THEN << >>
              ELSE <<[loc |-> <<field>>, type |-> "invalid"]>>

RECURSIVE ValidationErrors(_, _, _)
ValidationErrors(files, main, k) ==
    IF k > Len(MainFields) THEN << >>
    ELSE FieldErrors(files, main, MainFields[k]) \o ValidationErrors(files, main, k + 1)

(* MainConfig.model_validate: the errors, and the model when there is none
   (a key that is absent takes its default) *)
MainConfig(files, main) ==
    [errors |-> ValidationErrors(files, main, 1),
     model  |-> [f \in DOMAIN MainDefaults |->
                    IF Has(main, f) THEN main[f] ELSE MainDefaults[f]]]

createConfigToml == [Main |-> MainDefaults]

(* del array[i], i from 0 *)
DelAt(l, i) == SubSeq(l, 1, i) \o SubSeq(l, i + 2, Len(l))

(* the loop over ve.errors(): every error carries the index its entry had
   in the list that was validated *)
RECURSIVE Patch(_, _)
Patch(main, errors) ==
    IF errors = << >> THEN [raised |-> "", main |-> main]
    ELSE LET e == Head(errors)
             field == e.loc[1]
         IN  IF field = "RecentFiles" /\ e.type = "path_not_file"
             THEN IF e.loc[2] >= Len(main[field])
                  THEN [raised |-> "IndexError", main |-> main]
                  ELSE Patch([main EXCEPT ![field] = DelAt(@, e.loc[2])], Tail(errors))
             ELSE Patch(Put(main, field, MainDefaults[field]), Tail(errors))

(* TomlLoader.populate_config: the result, the Main it hands over and the
   files it leaves *)
populate_config(files, tomlFile) ==
    LET files1 == IF is_file(files, tomlFile) THEN files
                  ELSE Put(files, tomlFile, [kind |-> "toml", doc |-> createConfigToml])
        tdoc0 == IF TomlParses(files1[tomlFile]) THEN TomlLoad(files1[tomlFile])
                 ELSE createConfigToml
        tdoc == IF Has(tdoc0, "Main") THEN tdoc0 ELSE Put(tdoc0, "Main", MainDefaults)
        first == MainConfig(files1, tdoc["Main"])
        patched == Patch(tdoc["Main"], first.errors)
        second == MainConfig(files1, patched.main)
    IN  IF first.errors = << >>
        THEN [result |-> "ok", Main |-> first.model, files |-> files1]
        ELSE IF patched.raised # ""
             THEN [result |-> patched.raised, Main |-> first.model, files |-> files1]
             ELSE IF second.errors # << >>
                  THEN [result |-> "ValidationError", Main |-> first.model, files |-> files1]
                  ELSE [result |-> "ok", Main |-> second.model, files |-> files1]

(* RSettings.save: the file is read again and its Main takes every field of
   the settings *)
RSettingsSave(settings, files) ==
    LET tdoc == IF TomlParses(files[PreferencesFile]) THEN TomlLoad(files[PreferencesFile])
                ELSE createConfigToml
    IN  IF ~Has(tdoc, "Main")
        THEN [result |-> "NonExistentKey", files |-> files]
        ELSE [result |-> "ok",
              files  |-> Put(files, PreferencesFile,
                             [kind |-> "toml",
                              doc  |-> Put(tdoc, "Main",
                                           [f \in DOMAIN tdoc["Main"] \cup DOMAIN settings.Main |->
                                               IF Has(settings.Main, f) THEN settings.Main[f]
                                               ELSE tdoc["Main"][f]])])]

(* list.remove in a loop: every occurrence goes *)
RemoveAll(l, p) == SelectSeq(l, LAMBDA x : x # p)

(* the list with the path put first and its older entries left in place *)
adjustRecentKeepingOld(recentFiles, filename, maxRecentCount) ==
    LET inserted == <<filename>> \o recentFiles
    IN  IF Len(inserted) > maxRecentCount THEN SubSeq(inserted, 1, maxRecentCount)
        ELSE inserted

(* MainWindow.adjustRecentListForCurrent, up to the list it assigns *)
adjustRecentListForCurrent(recentFiles, filename, maxRecentCount) ==
    LET inserted == <<filename>> \o RemoveAll(recentFiles, filename)
    IN  IF Len(inserted) > maxRecentCount THEN SubSeq(inserted, 1, maxRecentCount)
        ELSE inserted

(* ---- the state machine of the settings ---- *)
RecentPaths == {"a.toml", "b.toml", "x.toml", "y.toml"}

OnDisk == {"a.toml", "b.toml"}


NoDuplicates(l) ==
    \A i, j \in 1..Len(l) : l[i] = l[j] => i = j

RecentLists ==
    {l \in UNION {[1..n -> RecentPaths] : n \in 0..MaxRecent} : NoDuplicates(l)}

(* the Main sections the preferences file starts with *)
MainTables ==
    {[MainDefaults EXCEPT !.LogLevel = lv, !.RecentMaxCount = n, !.RecentFiles = l] :
        lv \in {"DEBUG", "VERBOSE"}, n \in {0, 1, 2, 10}, l \in RecentLists}

SettingsFiles ==
    {[f \in OnDisk \cup {PreferencesFile} |->
         IF f = PreferencesFile THEN [kind |-> "toml", doc |-> [Main |-> m]]
         ELSE [kind |-> "toml", doc |-> ReferenceToml]] : m \in MainTables}
      \cup {[f \in OnDisk |-> [kind |-> "toml", doc |-> ReferenceToml]]}
      \cup {[f \in OnDisk \cup {PreferencesFile} |->
               IF f = PreferencesFile THEN c ELSE [kind |-> "toml", doc |-> ReferenceToml]] :
              c \in {[kind |-> "corrupt", bytes |-> CorruptBytes],
                     [kind |-> "toml", doc |-> EmptyTable]}}

InitSettings ==
    /\ clock = 1
    /\ fs \in SettingsFiles
    /\ prj = None
    /\ outcome = Done("new", "ok")
    /\ saved = << >>
    /\ segments = << >>
    /\ pressedAt = << >>
    /\ currentSegmentIndex = NotFound

(* RSettings(), the first time: the singleton is built by populate_config *)
SettingsLoad ==
    /\ prj = None
    /\ LET r == populate_config(fs, PreferencesFile)
       IN  /\ fs' = r.files
           /\ prj' = IF r.result = "ok" THEN [Main |-> r.Main] ELSE prj
           /\ outcome' = Done("settingsLoad", r.result)
    /\ saved' = << >>
    /\ UNCHANGED <<clock, widget>>

(* loadAudioProject(p): the list is adjusted and the settings are saved;
   ui.maxRecentCount is the RecentMaxCount the window was built with *)
AdjustRecent ==
    /\ prj # None
    /\ \E p \in RecentPaths :
          LET l == adjustRecentListForCurrent(prj.Main.RecentFiles, p, prj.Main.RecentMaxCount)
              settings == [prj EXCEPT !.Main.RecentFiles = l]
              r == RSettingsSave(settings, fs)
          IN  /\ prj' = settings
              /\ fs' = r.files
              /\ outcome' = Done("adjustRecent", r.result)
              /\ saved' = <<p>>
    /\ UNCHANGED <<clock, widget>>

(* MainWindow.onClearRecentFiles *)
ClearRecent ==
    /\ prj # None
    /\ LET settings == [prj EXCEPT !.Main.RecentFiles = << >>]
           r == RSettingsSave(settings, fs)
       IN  /\ prj' = settings
           /\ fs' = r.files
           /\ outcome' = Done("clearRecent", r.result)
    /\ saved' = << >>
    /\ UNCHANGED <<clock, widget>>

(* the application quits (RSettings().save()) and the singleton is gone *)
Quit ==
    /\ prj # None
    /\ LET r == RSettingsSave(prj, fs)
       IN  /\ fs' = r.files
           /\ outcome' = Done("quit", r.result)
    /\ prj' = None
    /\ saved' = << >>
    /\ UNCHANGED <<clock, widget>>

(* a project file is deleted outside the application *)
FileDeleted ==
    /\ \E p \in DOMAIN fs \ {PreferencesFile} : fs' = Del(fs, p)
    /\ UNCHANGED <<prj, clock, outcome, saved, widget>>

NextSettings ==
    \/ SettingsLoad
    \/ AdjustRecent
    \/ ClearRecent
    \/ Quit
    \/ FileDeleted

SpecSettings == InitSettings /\ [][NextSettings]_vars

(***************************************************************************)
(* The markers of AudioSpectrumWidget: audioSpectrum.py.  prj is the       *)
(* widget's record of start, end and totalTime, in milliseconds; saved is  *)
(* what markerChanged emitted in the last call; outcome names the call     *)
(* and its argument.                                                       *)
(***************************************************************************)
MaxTotal == 4

Beyond == 2

Maximum(a, b) == IF a >= b THEN a ELSE b

Minimum(a, b) == IF a <= b THEN a ELSE b

(* a setter that clamps and never exchanges the markers *)
setStartMarkerNoSwap(w, x) ==
    IF x = w.start THEN [w |-> w, emitted |-> << >>]
    ELSE LET clamped == Maximum(0, Minimum(w.totalTime, x))
         IN  [w       |-> [w EXCEPT !.start = clamped],
              emitted |-> IF w.start # clamped THEN <<clamped>> ELSE << >>]

setStartMarker(w, x) ==
    IF x = w.start THEN [w |-> w, emitted |-> << >>]
    ELSE LET clamped == Maximum(0, Minimum(w.totalTime, x))
             swap == clamped > w.end
             s == IF swap THEN w.end ELSE clamped
             e == IF swap THEN clamped ELSE w.end
         IN  [w       |-> [w EXCEPT !.start = s, !.end = e],
              emitted |-> IF w.start # s THEN <<s>> ELSE << >>]

setEndMarker(w, y) ==
    IF y = w.end THEN [w |-> w, emitted |-> << >>]
    ELSE LET clamped == Maximum(0, Minimum(w.totalTime, y))
             swap == w.start > clamped
             s == IF swap THEN clamped ELSE w.start
             e == IF swap THEN w.start ELSE clamped
         IN  [w       |-> [w EXCEPT !.start = s, !.end = e],
              emitted |-> IF w.end # e THEN <<e>> ELSE << >>]

MarkerStates ==
    {w \in [start : 0..MaxTotal, end : 0..MaxTotal, totalTime : 0..MaxTotal] :
        w.start <= w.end /\ w.end <= w.totalTime}

MarkerInputs == (0 - Beyond)..(MaxTotal + Beyond)

Called(op, arg) == [op |-> op, result |-> "ok", arg |-> arg]

InitMarkers ==
    /\ clock = 1
    /\ fs = EmptyTable
    /\ prj \in MarkerStates
    /\ outcome = Called("new", 0)
    /\ saved = << >>
    /\ segments = << >>
    /\ pressedAt = << >>
    /\ currentSegmentIndex = NotFound

SetStartMarker ==
    \E x \in MarkerInputs :
        LET r == setStartMarker(prj, x)
        IN  /\ prj' = r.w
            /\ saved' = r.emitted
            /\ outcome' = Called("setStartMarker", x)
            /\ UNCHANGED <<fs, clock, widget>>

SetEndMarker ==
    \E y \in MarkerInputs :
        LET r == setEndMarker(prj, y)
        IN  /\ prj' = r.w
            /\ saved' = r.emitted
            /\ outcome' = Called("setEndMarker", y)
            /\ UNCHANGED <<fs, clock, widget>>

NextMarkers ==
    \/ SetStartMarker
    \/ SetEndMarker

SpecMarkers == InitMarkers /\ [][NextMarkers]_vars

(***************************************************************************)
(* Vocabulary of the properties                                            *)
(***************************************************************************)
(* a step of Save or of Load: no other step leaves their outcome behind,
   but for the clock's tick, which leaves the outcome as it was *)
SaveStep == outcome'.op = "save" /\ clock' = clock

SaveOkStep == SaveStep /\ outcome'.result = "ok"

LoadStep == outcome'.op = "load" /\ clock' = clock

LoadOkStep == LoadStep /\ outcome'.result = "ok"

Valid(p) == p.title # << >> /\ p.originator # << >> /\ p.email # << >>

(* a document as the constructor leaves it, but for its title and folder *)
Fresh(p) ==
    /\ p.originator = << >>
    /\ p.email = << >>
    /\ p.narrative = << >>
    /\ p.recordings = << >>

FileDoc(files) == TomlLoad(files[ProjectFile])

WrittenRecordings(files) ==
    IF Has(FileDoc(files), "recordings") THEN FileDoc(files)["recordings"] ELSE << >>

SamePaths(entries, recs) ==
    /\ Len(entries) = Len(recs)
    /\ \A i \in 1..Len(recs) :
        /\ entries[i]["audioFile"] = StrOfPath(recs[i].audioFile)
        /\ entries[i]["transcriptFile"] = StrOfPath(recs[i].transcriptFile)

(***************************************************************************)
(* C1: saveProject() followed by loadProject(), on the document that was   *)
(* saved or on a fresh one, gives a document with the title, authorName,   *)
(* authorEmail, description and createdOn that were saved and with the     *)
(* same recordings, in number, order and paths.                            *)
(***************************************************************************)
LoadAfterSave == outcome = Done("save", "ok") /\ LoadOkStep

LoadIntoFresh == outcome.op = "edit" /\ Fresh(prj) /\ saved # << >> /\ LoadOkStep

AsSaved(p, snap) ==
    /\ p.title = snap.title
    /\ p.originator = snap.originator
    /\ p.email = snap.email
    /\ p.narrative = snap.narrative
    /\ p.createdOn = snap.createdOn
    /\ p.recordings = snap.recordings

C1_RoundTrip ==
    [][(LoadAfterSave \/ LoadIntoFresh) => AsSaved(prj', saved[1])]_vars

(***************************************************************************)
(* C2: a save that patches a parseable file of r recordings from a         *)
(* document of R recordings writes exactly R entries, entry i with the     *)
(* audioFile and transcriptFile of recording i; the first min(R, r)        *)
(* entries are the file's own entries, patched in place.                   *)
(***************************************************************************)
UpdatePath == projectFileExists(prj, fs) /\ TomlParses(fs[ProjectFile])

PatchedInPlace(old, new) ==
    \A i \in 1..Len(old) : i <= Len(new) => DOMAIN old[i] \subseteq DOMAIN new[i]

C2_RecordingsResize ==
    [][(UpdatePath /\ SaveOkStep) =>
          /\ SamePaths(WrittenRecordings(fs'), prj.recordings)
          /\ PatchedInPlace(WrittenRecordings(fs), WrittenRecordings(fs'))]_vars

(* the reference file's one entry patched in place and a second appended *)
C2_Witness ==
    /\ outcome = Done("save", "ok")
    /\ Has(FileDoc(fs)["general"], "title")
    /\ Len(WrittenRecordings(fs)) = 2
    /\ Has(WrittenRecordings(fs)[1], "videoFile")
    /\ prj.recordings = RecsUpTo(2)

(***************************************************************************)
(* C3: a successful save of a document with no recordings writes a file    *)
(* with no recordings key, on the render path and on the update path, and  *)
(* a load that follows gives a document with no recordings.                *)
(***************************************************************************)
C3_NoRecordingsKey ==
    [][/\ (SaveOkStep /\ prj.recordings = << >>) => ~Has(FileDoc(fs'), "recordings")
       /\ ((LoadAfterSave \/ LoadIntoFresh) /\ saved[1].recordings = << >>)
              => prj'.recordings = << >>]_vars

(* loaded back after the reference file's entry was truncated away *)
C3_Witness ==
    /\ outcome = Done("load", "ok")
    /\ saved # << >>
    /\ saved[1].recordings = << >>
    /\ prj.recordings = << >>
    /\ Has(FileDoc(fs)["general"], "title")
    /\ ~Has(FileDoc(fs), "recordings")

(***************************************************************************)
(* C4: saving a valid document over a project file that does not parse     *)
(* never raises; the backup then holds the bytes of that file, whatever    *)
(* backup there was before, and the project file is a freshly rendered,    *)
(* parseable document of the in-memory state.                              *)
(***************************************************************************)
CorruptPath == projectFileExists(prj, fs) /\ ~TomlParses(fs[ProjectFile])

OwnedKeys == {"RekhtaNaveesVersion", "general", "recordings"}

OwnedGeneralKeys == {"authorName", "authorEmail", "description", "createdOn", "lastSavedOn"}

RenderedFrom(tdoc, p) ==
    /\ DOMAIN tdoc \subseteq OwnedKeys
    /\ tdoc["RekhtaNaveesVersion"] = ApplicationVersion
    /\ DOMAIN tdoc["general"] \subseteq OwnedGeneralKeys
    /\ tdoc["general"]["authorName"] = p.originator
    /\ tdoc["general"]["authorEmail"] = p.email
    /\ IF p.narrative = << >>
       THEN ~Has(tdoc["general"], "description")
       ELSE tdoc["general"]["description"] = p.narrative
    /\ tdoc["general"]["createdOn"] = p.createdOn
    /\ SamePaths(IF Has(tdoc, "recordings") THEN tdoc["recordings"] ELSE << >>,
                 p.recordings)

C4_SelfHeal ==
    [][(CorruptPath /\ Valid(prj) /\ SaveStep) =>
          /\ outcome'.result = "ok"
          /\ BackupName(ProjectFile) \in DOMAIN fs'
          /\ fs'[BackupName(ProjectFile)] = fs[ProjectFile]
          /\ ProjectFile \in DOMAIN fs'
          /\ TomlParses(fs'[ProjectFile])
          /\ RenderedFrom(FileDoc(fs'), prj)]_vars

C4_Witness ==
    /\ outcome = Done("save", "ok")
    /\ BackupName(ProjectFile) \in DOMAIN fs
    /\ fs[BackupName(ProjectFile)] = CorruptBytes
    /\ ProjectFile \in DOMAIN fs
    /\ TomlParses(fs[ProjectFile])
    /\ prj.recordings # << >>
    /\ RenderedFrom(FileDoc(fs), prj)

(***************************************************************************)
(* C5: saveProject() on a document whose title, authorName or authorEmail  *)
(* is empty fails with a validation error and writes nothing: the files    *)
(* are, by name and bytes, what they were.                                 *)
(***************************************************************************)
C5_ValidationGate ==
    [][(SaveStep /\ ~Valid(prj)) =>
          /\ outcome'.result = "AssertionError"
          /\ fs' = fs]_vars

(***************************************************************************)
(* C6: loadProject() of a parseable file whose RekhtaNaveesVersion is      *)
(* missing or is not the application's version fails, and the document is  *)
(* then what it was before the call.                                       *)
(***************************************************************************)
BadVersion(files) ==
    \/ ~Has(FileDoc(files), "RekhtaNaveesVersion")
    \/ FileDoc(files)["RekhtaNaveesVersion"] # ApplicationVersion

C6_VersionGate ==
    [][(LoadStep /\ UpdatePath /\ BadVersion(fs)) =>
          /\ outcome'.result # "ok"
          /\ prj' = prj]_vars

(* the gate refused a file another author wrote, the folder being set *)
C6_Witness ==
    /\ outcome = Done("load", "AudioProjectException")
    /\ prj.projectFolder # << >>
    /\ UpdatePath
    /\ Has(FileDoc(fs), "RekhtaNaveesVersion")
    /\ BadVersion(fs)
    /\ prj.originator = <<"n">>
    /\ FileDoc(fs)["general"]["authorName"] = <<"m">>

(***************************************************************************)
(* C7: after loadProject() returns without error the modified flag is      *)
(* false.                                                                  *)
(***************************************************************************)
C7_LoadClearsModified == outcome = Done("load", "ok") => ~isDirty(prj)

(***************************************************************************)
(* C8: after saveProject() returns without error the modified flag is      *)
(* false.                                                                  *)
(***************************************************************************)
C8_SaveClearsModified == outcome = Done("save", "ok") => ~isDirty(prj)

(***************************************************************************)
(* C9: a successful saveProject() sets lastSavedOn to the time of the      *)
(* save: the value written, which the document then holds, is present and  *)
(* not before the value held before the save, and two saves at different   *)
(* clock times write different values.                                     *)
(***************************************************************************)
C9_LastSavedOnAdvances ==
    [][SaveOkStep =>
          LET general == FileDoc(fs')["general"]
          IN  /\ Has(general, "lastSavedOn")
              /\ general["lastSavedOn"] >= prj.lastSavedOn
              /\ prj'.lastSavedOn = general["lastSavedOn"]
              /\ (saved # << >> /\ saved[1].at # clock)
                     => general["lastSavedOn"] # saved[1].written]_vars

(***************************************************************************)
(* C10: on a document just loaded or just saved, an operation that changes *)
(* the title, authorName, authorEmail or description, or that appends to,  *)
(* removes from or replaces the recordings, leaves the modified flag true. *)
(***************************************************************************)
InSync == outcome \in {Done("load", "ok"), Done("save", "ok")}

EditChanges ==
    /\ outcome'.op = "edit"
    /\ clock' = clock
    /\ \/ prj'.title # prj.title
       \/ prj'.originator # prj.originator
       \/ prj'.email # prj.email
       \/ prj'.narrative # prj.narrative
       \/ prj'.recordings # prj.recordings

WithFlag(p, f) == [p EXCEPT !.isModified = f]

C11_SameValueKeepsFlag ==
    \A f \in BOOLEAN :
        LET p == WithFlag(prj, f)
        IN  /\ \A x \in NameProbes :
                   Strip(x) = p.title => NameSetter(p, x).isModified = f
            /\ \A x \in AuthorNameInputs :
                   Strip(x) = p.originator => AuthorNameSetter(p, x).isModified = f
            /\ \A x \in AuthorEmailInputs :
                   Strip(x) = p.email => AuthorEmailSetter(p, x).isModified = f
            /\ \A x \in DescriptionInputs :
                   Strip(x) = p.narrative => DescriptionSetter(p, x).isModified = f

(* every one of the four fields holds a value that some input trims to *)
C11_Witness ==
    /\ outcome.op = "edit"
    /\ \E x \in NameProbes : x # prj.title /\ Strip(x) = prj.title
    /\ \E x \in AuthorNameInputs : x # prj.originator /\ Strip(x) = prj.originator
    /\ \E x \in AuthorEmailInputs : x # prj.email /\ Strip(x) = prj.email
    /\ \E x \in DescriptionInputs : x # prj.narrative /\ Strip(x) = prj.narrative

WriteFailedStep == SaveStep /\ outcome'.result = "OSError"

C13_WriteFailureAtomic ==
    [][WriteFailedStep =>
          /\ prj' = prj
          /\ \/ projectFilename(prj) \notin DOMAIN fs'
             \/ /\ projectFilename(prj) \in DOMAIN fs
                /\ fs'[projectFilename(prj)] = fs[projectFilename(prj)]]_vars

(***************************************************************************)
(* C14: createdOn is write-once.  Whatever setters were called before it,  *)
(* a successful saveProject() on an existing project file that records a   *)
(* createdOn leaves that value in the file.                                *)
(***************************************************************************)
HasCreatedOn(files) ==
    /\ Has(FileDoc(files), "general")
    /\ Has(FileDoc(files)["general"], "createdOn")

C14_CreatedOnWriteOnce ==
    [][(UpdatePath /\ HasCreatedOn(fs) /\ SaveOkStep) =>
          /\ HasCreatedOn(fs')
          /\ FileDoc(fs')["general"]["createdOn"] = FileDoc(fs)["general"]["createdOn"]]_vars

(***************************************************************************)
(* C15: a save that patches an existing parseable file leaves alone what   *)
(* the program does not own: every top-level key but RekhtaNaveesVersion,  *)
(* general and recordings, every key of general but authorName,            *)
(* authorEmail, description, createdOn and lastSavedOn, and every key but  *)
(* audioFile and transcriptFile of the first min(R, r) recordings entries  *)
(* has the value it had in the file before the save.                       *)
(***************************************************************************)
KeptExcept(old, new, owned) ==
    \A k \in (DOMAIN old) \ owned : Has(new, k) /\ new[k] = old[k]

EqualButLastSavedOn(a, b) ==
    /\ DOMAIN a = DOMAIN b
    /\ \A k \in (DOMAIN a) \ {"general"} : a[k] = b[k]
    /\ Has(a, "general") =>
           /\ DOMAIN a["general"] = DOMAIN b["general"]
           /\ \A k \in (DOMAIN a["general"]) \ {"lastSavedOn"} :
                  a["general"][k] = b["general"][k]

SecondSave == outcome = Done("save", "ok") /\ SaveOkStep

C16_IdempotentResave ==
    [][SecondSave => EqualButLastSavedOn(FileDoc(fs), FileDoc(fs'))]_vars

(* saved after the reference file was loaded into a new document: the
   creation time is that of the file, the one recording is the file's *)
C16_Witness ==
    /\ outcome = Done("save", "ok")
    /\ prj.createdOn = 0
    /\ prj.originator = <<"m">>
    /\ prj.recordings = <<Recording(<<".", "recording001">>, <<"recording001.txt">>)>>
    /\ Len(WrittenRecordings(fs)) = 1
    /\ Has(FileDoc(fs), "custom")

(***************************************************************************)
(* C17: loading a parseable file with the matching version tag fails       *)
(* whenever the general table is absent from it or one of the keys title,  *)
(* authorName and authorEmail is absent from that table.                   *)
(***************************************************************************)
RequiredGeneralKeys == {"title", "authorName", "authorEmail"}

MissingRequired(tdoc) ==
    \/ ~Has(tdoc, "general")
    \/ \E k \in RequiredGeneralKeys : ~Has(tdoc["general"], k)

Loadable ==
    /\ projectFileExists(prj, fs)
    /\ prj.projectFolder # << >>
    /\ TomlParses(fs[ProjectFile])
    /\ VersionGate(FileDoc(fs))

C17_LoadRequiresGeneralKeys ==
    [][(Loadable /\ MissingRequired(FileDoc(fs)) /\ LoadStep) =>
          outcome'.result = "AudioProjectException"]_vars

(***************************************************************************)
(* C18: loading an existing file that does not parse fails with the        *)
(* project error that carries the parse error and the path, and changes    *)
(* nothing on the file system: the file keeps its bytes and no backup is   *)
(* created or replaced.                                                    *)
(***************************************************************************)
C18_LoadNeverRepairs ==
    [][(CorruptPath /\ LoadStep) =>
          /\ outcome'.result = "AudioProjectException"
          /\ fs' = fs]_vars

(***************************************************************************)
(* C19: when no file exists at the document's project path (the title or   *)
(* the folder may be empty), loadProject() fails with the project error    *)
(* and changes no field of the document.                                   *)
(***************************************************************************)
C19_LoadNotFound ==
    [][(~projectFileExists(prj, fs) /\ LoadStep) =>
          /\ outcome'.result = "AudioProjectException"
          /\ prj' = prj]_vars

(* not found although the title and the folder are set, on a document that
   holds an author *)
C19_Witness ==
    /\ outcome = Done("load", "AudioProjectException")
    /\ ~projectFileExists(prj, fs)
    /\ prj.originator # << >>
    /\ prj.title # << >>
    /\ prj.projectFolder # << >>

(***************************************************************************)
(* C20: on a list of segments ordered by non-decreasing start time, the    *)
(* lookup of a time t gives an index i with start <= t <= end of segment i *)
(* whenever some segment contains t, and -1 exactly when none does; gaps,  *)
(* shared boundaries, overlapping and nested segments included.            *)
(***************************************************************************)
Containing(segs, t) == {i \in 0..(Len(segs) - 1) : Contains(segs[i + 1], t)}

C20_SegmentLookup ==
    pressedAt # << >> =>
        LET found == Containing(segments, pressedAt[1])
        IN  /\ found # {} => currentSegmentIndex \in found
            /\ found = {} => currentSegmentIndex = NotFound

(***************************************************************************)
(* C21: in every state reached by construction, setter calls, loads and    *)
(* saves, the document's lastSavedOn (which the document always holds) is  *)
(* not before its createdOn.                                               *)
(***************************************************************************)
C21_SavedNotBeforeCreated == prj.lastSavedOn >= prj.createdOn

(* loaded back from a file this program wrote for a document it created *)
C21_Witness ==
    /\ outcome = Done("load", "ok")
    /\ saved # << >>
    /\ saved[1].createdOn = 1
    /\ prj.createdOn = 1
    /\ FileDoc(fs)["general"]["createdOn"] = 1

(***************************************************************************)
(* C22: right after construction the title, authorName, authorEmail,       *)
(* author and description are empty strings, recordings is the empty list, *)
(* the document holds no lastSavedOn and the modified flag is false.       *)
(***************************************************************************)
C22_InitialState ==
    outcome.op = "new" =>
        /\ prj.title = << >>
        /\ prj.originator = << >>
        /\ prj.email = << >>
        /\ author(prj) = << >>
        /\ prj.narrative = << >>
        /\ prj.recordings = << >>
        /\ "lastSavedOn" \notin DOMAIN prj
        /\ ~isDirty(prj)

(***************************************************************************)
(* C24: the author of a document is its authorName followed by '<', its    *)
(* authorEmail and '>' when the authorEmail is not empty, and is just the  *)
(* authorName when it is; so it is empty when both are.                    *)
(***************************************************************************)
C24_AuthorFormat ==
    author(prj) = IF prj.email # << >>
                  THEN prj.originator \o <<"<">> \o prj.email \o <<">">>
                  ELSE prj.originator

(***************************************************************************)
(* C23: after a successful load of a file whose general table has no       *)
(* description the document's description is empty, and after one of a     *)
(* file with no lastSavedOn the document holds no lastSavedOn, whatever    *)
(* the document held before the load.                                      *)
(***************************************************************************)
C23_OptionalKeysDefaulted ==
    [][(Loadable /\ LoadOkStep) =>
          /\ ~Has(FileDoc(fs)["general"], "description") => prj'.narrative = << >>
          /\ ~Has(FileDoc(fs)["general"], "lastSavedOn") =>
                 "lastSavedOn" \notin DOMAIN prj']_vars

(***************************************************************************)
(* C25: loadTranscript of the file saveTranscript has just written gives a *)
(* list of the same length and order as the list that was passed to        *)
(* saveTranscript, each record with the same id, start, end, text and word *)
(* list.                                                                   *)
(***************************************************************************)
C25_TranscriptRoundTrip ==
    [][(outcome = Done("saveTranscript", "ok") /\ outcome'.op = "loadTranscript") =>
          /\ outcome'.result = "ok"
          /\ segments' = saved[1]]_vars

(***************************************************************************)
(* C26: every saveProject() starts with no file, with a file that parses   *)
(* or with one that does not; only in the last case is the file renamed to *)
(* its backup; and every call ends written, failed on input/output or      *)
(* failed on validation: no other error escapes.                           *)
(***************************************************************************)
NoFile == ~projectFileExists(prj, fs)

SaveEnds == {"ok", "OSError", "IsADirectoryError", "AssertionError"}

C26_SaveStateMachine ==
    [][SaveStep =>
          /\ (IF NoFile THEN 1 ELSE 0) + (IF UpdatePath THEN 1 ELSE 0)
                 + (IF CorruptPath THEN 1 ELSE 0) = 1
          /\ ~CorruptPath => \A f \in DOMAIN fs : f \in DOMAIN fs' /\ (f # ProjectFile => fs'[f] = fs[f])
          /\ CorruptPath => fs'[BackupName(ProjectFile)] = fs[ProjectFile]
          /\ outcome'.result \in SaveEnds]_vars

(***************************************************************************)
(* C27: NaveesProject.save writes a recordings array of exactly len(clips) *)
(* entries, the clips in order, whatever recordings the file held; so the  *)
(* count on disk stays the one that was loaded over consecutive saves.     *)
(***************************************************************************)
C27_NaveesSaveRecordings ==
    [][(outcome'.op = "naveesSave" /\ outcome'.result = "ok" /\ clock' = clock) =>
          SamePaths(WrittenRecordings(fs'), prj.clips)]_vars

(***************************************************************************)
(* C28: loading the settings never fails: whatever entries of RecentFiles  *)
(* are not files, populate_config hands over the list of the entries that  *)
(* are files, in their order, with every other invalid field at its        *)
(* default.                                                                *)
(***************************************************************************)
SettingsLoadStep == outcome'.op = "settingsLoad" /\ prj = None /\ saved' = << >>

FileMain ==
    IF is_file(fs, PreferencesFile) /\ TomlParses(fs[PreferencesFile])
          /\ Has(TomlLoad(fs[PreferencesFile]), "Main")
    THEN TomlLoad(fs[PreferencesFile])["Main"]
    ELSE MainDefaults

Repaired(main) ==
    [f \in DOMAIN MainDefaults |->
        IF ~Has(main, f) THEN MainDefaults[f]
        ELSE IF f = "RecentFiles" THEN SelectSeq(main[f], LAMBDA p : is_file(fs, p))
        ELSE IF FieldValid(fs, f, main[f]) THEN main[f] ELSE MainDefaults[f]]

C28_SettingsRepair ==
    [][SettingsLoadStep =>
          /\ outcome'.result = "ok"
          /\ prj' # None
          /\ prj'.Main = Repaired(FileMain)]_vars

(***************************************************************************)
(* C29: after adjustRecentListForCurrent(p) the list of recent files has   *)
(* no path twice, has at most maxRecentCount entries, starts with p, and   *)
(* continues with the entries it had, p apart, in the order they had.      *)
(***************************************************************************)
AdjustStep == outcome'.op = "adjustRecent" /\ prj # None /\ saved' # << >>

IsPrefix(s, t) == Len(s) <= Len(t) /\ s = SubSeq(t, 1, Len(s))

MarkersInRange(w) == 0 <= w.start /\ w.start <= w.end /\ w.end <= w.totalTime

====
